---- MODULE Spec2Model ----
(***************************************************************************)
(* A model of scmtiles: the grid decomposition of grid_manager.py          *)
(* (GridManager, RectangularTile, LinearTile, Cell) and the MPI task       *)
(* protocol of task.py (TileTask.initialize / run / finalize) driving the  *)
(* tile runner of runner.py.                                               *)
(***************************************************************************)
EXTENDS Integers, Sequences, FiniteSets, TLC

VARIABLES
    gm,              \* the GridManager instance: [nx, ny, workers], or None
    decompose_mode,  \* 'rows' or 'cells'
    tiles,           \* the list returned by decompose_by_*; <<>> before the call
    sweep,           \* the enumeration in progress: [t |-> tile position, k |-> cells yielded from it]
    yielded,         \* the Cells yielded so far by cells(), tiles taken in list order
    passes,          \* what each earlier call of cells() on a tile yielded before it was dropped
    y_read,          \* the last access of `cell.y`: the cell and how the access ended, None before
    size,            \* comm.size, the number of participants
    runner_class,    \* the injected runner class, by how its run() may be called
    pc,              \* pc[r]: where participant r is in initialize / run / finalize
    outcome,         \* how the master's configuration phase ended ("pending" before)
    mconfig,         \* the master's local `config` in initialize()
    config,          \* config[r]: self.config
    tile,            \* tile[r]: self.tile
    chan,            \* chan[r]: payloads of the root's collectives not yet received by r
    runner,          \* runner[r]: the local `runner` of run(), None until constructed
    cell_results,    \* cell_results[r]: tile_result.cell_results of the running runner
    raised,          \* raised[r]: the exception raised in r's run(), "none" if none
    result,          \* result[r]: the local `run_info` of run(), r's contribution
    contrib,         \* contrib[r]: r's contribution in flight to the root's gather
    run_info,        \* run_info[r]: self.run_info: Unset, None or ListObj(the gathered list)
    log,             \* log[r]: the error records r has logged
    exitcode,        \* exitcode[r]: IntObj(the argument of sys.exit()), None if not called
    status           \* status[r]: IntObj(the value finalize() returned), None before

gridvars == <<gm, decompose_mode, tiles, sweep, yielded, passes, y_read>>

taskvars == <<size, runner_class, pc, outcome, mconfig, config, tile, chan, runner,
              cell_results, raised, result, contrib, run_info, log, exitcode, status>>

vars == <<gridvars, taskvars>>

\* ------------------------------------------------------------------ bounds
MaxWidth == 4
MaxHeight == 5
MaxWorkers == 8
MaxSize == 2
MaxXSize == 2
MaxYSize == 2
MaxSide == 3
MaxCalls == 2

\* ----------------------------------------------------------- Python helpers
None == [type |-> "None"]

\* `v is None`, for a v that may be a number
IsNone(v) == ToString(v) = ToString(None)

Min(a, b) == IF a < b THEN a ELSE b

\* range(n): the list 0, 1, ..., n-1
range(n) == [i \in 1..n |-> i - 1]

\* slice(start, stop)
slice(start, stop) == [start |-> start, stop |-> stop]

\* mutant: the slice taken with its start one element early
GetSliceInclusive(L, s) ==
    SubSeq(L, IF s.start = 0 THEN 1 ELSE Min(s.start, Len(L)), Min(s.stop, Len(L)))

\* mutant: the slice stops one element early
GetSliceDropLast(L, s) == SubSeq(L, Min(s.start, Len(L)) + 1, Min(s.stop, Len(L)) - 1)

\* L[slice(start, stop)] for 0 <= start, 0 <= stop (Python clamps to len(L))
GetSlice(L, s) == SubSeq(L, Min(s.start, Len(L)) + 1, Min(s.stop, Len(L)))

\* L[:-1]
ButLast(L) == IF Len(L) = 0 THEN <<>> ELSE SubSeq(L, 1, Len(L) - 1)

\* itertools.accumulate(L): running sums
RECURSIVE accumulate(_)
accumulate(L) ==
    IF Len(L) = 0 THEN <<>>
    ELSE LET front == accumulate(ButLast(L))
         IN  Append(front, (IF Len(front) = 0 THEN 0 ELSE front[Len(front)]) + L[Len(L)])

\* the concatenation of a list of lists, in order (a nested comprehension)
RECURSIVE Flatten(_)
Flatten(LL) == IF Len(LL) = 0 THEN <<>> ELSE LL[1] \o Flatten(Tail(LL))

\* ------------------------------------------------------ grid_manager.py
Cell(x_global, y_global, x, y) ==
    [x_global |-> x_global, y_global |-> y_global, x |-> x, y |-> y]

LinearTile(tile_id, selector, x_indices, y_indices) ==
    [id |-> tile_id, type |-> "linear", selector |-> selector,
     xi |-> x_indices, yi |-> y_indices]

RectangularTile(tile_id, xselector, yselector, x_indices, y_indices) ==
    [id |-> tile_id, type |-> "rectangular", xselector |-> xselector,
     yselector |-> yselector, xi |-> x_indices, yi |-> y_indices]

\* mutant: enumerate counts from 1
LinearCellsFromOne(t) ==
    [e \in 1..Min(Len(t.xi), Len(t.yi)) |-> Cell(t.xi[e], t.yi[e], e, None)]

\* the property Cell.y: `raise AtrributeError(...)` names a class that does
\* not exist, so evaluating it raises NameError; otherwise return self._y
CellY(cell) ==
    IF IsNone(cell.y)
    THEN [cell |-> cell, raised |-> "NameError", value |-> None]
    ELSE [cell |-> cell, raised |-> "none", value |-> cell.y]

\* LinearTile.cells(): for e, (xi, yi) in enumerate(zip(self._xi, self._yi))
LinearCells(t) ==
    [e \in 1..Min(Len(t.xi), Len(t.yi)) |-> Cell(t.xi[e], t.yi[e], e - 1, None)]

\* mutant: the loops are nested the other way round, x outside and y inside
RectangularCellsColumnMajor(t) ==
    Flatten([x \in 1..Len(t.xi) |->
                [y \in 1..Len(t.yi) |-> Cell(t.xi[x], t.yi[y], x - 1, y - 1)]])

\* RectangularTile.cells(): for y, yi in enumerate(_yi): for x, xi in enumerate(_xi)
RectangularCells(t) ==
    Flatten([y \in 1..Len(t.yi) |->
                [x \in 1..Len(t.xi) |-> Cell(t.xi[x], t.yi[y], x - 1, y - 1)]])

\* tile.cells(), the whole sequence the generator yields
Cells(t) == IF t.type = "linear" THEN LinearCells(t) ELSE RectangularCells(t)

GridManager(nx, ny, workers) == [nx |-> nx, ny |-> ny, workers |-> workers]

\* mutant: n <= num_extra, one worker too many gets the extra unit
PerWorkerOffByOne(total, workers) ==
    LET base == total \div workers
        num_extra == total % workers
        all == [n \in 1..workers |-> IF n - 1 <= num_extra THEN base + 1 ELSE base]
    IN  SelectSeq(all, LAMBDA r : r # 0)

\* mutant: the extra units go to the last num_extra workers
PerWorkerExtraLast(total, workers) ==
    LET base == total \div workers
        num_extra == total % workers
        all == [n \in 1..workers |->
                   IF n - 1 >= workers - num_extra THEN base + 1 ELSE base]
    IN  SelectSeq(all, LAMBDA r : r # 0)

\* mutant: the zero entries are not filtered out
PerWorkerKeepZeros(total, workers) ==
    LET base == total \div workers
        num_extra == total % workers
    IN  [n \in 1..workers |-> IF n - 1 < num_extra THEN base + 1 ELSE base]

\* [base + 1 if n < num_extra else base for n in range(workers)], zeros dropped
PerWorker(total, workers) ==
    LET base == total \div workers
        num_extra == total % workers
        all == [n \in 1..workers |-> IF n - 1 < num_extra THEN base + 1 ELSE base]
    IN  SelectSeq(all, LAMBDA r : r # 0)

\* ends = list(accumulate(per_worker))
Ends(per_worker) == accumulate(per_worker)

\* mutant: starts = ends[:-1], the leading 0 forgotten
StartsNoZero(ends) == ButLast(ends)

\* starts = [0] + ends[:-1]
Starts(ends) == <<0>> \o ButLast(ends)

\* mutant: the list is returned without the None padding
PadNothing(ts, workers) == ts

\* mutant: the list is filled up with empty tiles instead of None
PadEmptyTiles(ts, workers) ==
    IF Len(ts) < workers
    THEN ts \o [i \in 1..(workers - Len(ts)) |->
                   RectangularTile(Len(ts) + i - 1, slice(0, 0), slice(0, 0), <<>>, <<>>)]
    ELSE ts

\* if len(tiles) < self.workers: tiles += [None] * (self.workers - len(tiles))
Pad(ts, workers) ==
    IF Len(ts) < workers THEN ts \o [i \in 1..(workers - Len(ts)) |-> None] ELSE ts

\* mutant: the ids are counted from 1
TileIdFromOne(n) == n

\* the n of `for n, (start, end) in enumerate(zip(starts, ends))` at the n-th
\* element, n from 1: enumerate counts from 0
TileId(n) == n - 1

decompose_by_rows(g) ==
    LET rows_per_worker == PerWorker(g.ny, g.workers)
        ends == Ends(rows_per_worker)
        starts == Starts(ends)
        xi == range(g.nx)
        yi == range(g.ny)
        real == [n \in 1..Min(Len(starts), Len(ends)) |->
                    RectangularTile(TileId(n), slice(0, g.nx), slice(starts[n], ends[n]),
                                    xi, GetSlice(yi, slice(starts[n], ends[n])))]
    IN  Pad(real, g.workers)

\* mutant: x varies slower than y, [x for x in range(nx) for _ in range(ny)]
FlatXiColumnMajor(nx, ny) == Flatten([x \in 1..nx |-> [y \in 1..ny |-> x - 1]])

\* xi = [x for _ in range(self.ny) for x in range(self.nx)]
FlatXi(nx, ny) == Flatten([y \in 1..ny |-> range(nx)])

\* yi = [y for y in range(self.ny) for _ in range(self.nx)]
FlatYi(nx, ny) == Flatten([y \in 1..ny |-> [x \in 1..nx |-> y - 1]])

\* mutant: the units shared out are width + height, not width * height
decompose_by_cells_SumOfSides(g) ==
    LET grid_size == g.nx + g.ny
        cells_per_worker == PerWorker(grid_size, g.workers)
        ends == Ends(cells_per_worker)
        starts == Starts(ends)
        xi == FlatXi(g.nx, g.ny)
        yi == FlatYi(g.nx, g.ny)
        real == [n \in 1..Min(Len(starts), Len(ends)) |->
                    LinearTile(TileId(n), slice(starts[n], ends[n]),
                               GetSlice(xi, slice(starts[n], ends[n])),
                               GetSlice(yi, slice(starts[n], ends[n])))]
    IN  Pad(real, g.workers)

decompose_by_cells(g) ==
    LET grid_size == g.nx * g.ny
        cells_per_worker == PerWorker(grid_size, g.workers)
        ends == Ends(cells_per_worker)
        starts == Starts(ends)
        xi == FlatXi(g.nx, g.ny)
        yi == FlatYi(g.nx, g.ny)
        real == [n \in 1..Min(Len(starts), Len(ends)) |->
                    LinearTile(TileId(n), slice(starts[n], ends[n]),
                               GetSlice(xi, slice(starts[n], ends[n])),
                               GetSlice(yi, slice(starts[n], ends[n])))]
    IN  Pad(real, g.workers)

\* if self.decompose_mode == 'cells': ... else: ...
Decompose(g, mode) ==
    IF mode = "cells" THEN decompose_by_cells(g) ELSE decompose_by_rows(g)

\* ------------------------------------------------------ cli.py, config.py
\* the result of a call: the exception it raised ("none" if it returned)
\* and the configuration object bound so far
Raise(exc, cfg) == [raised |-> exc, config |-> cfg]

Return(cfg) == [raised |-> "none", config |-> cfg]

SCMTilesConfig(xsize, ysize) ==
    [type |-> "SCMTilesConfig", xsize |-> xsize, ysize |-> ysize]

\* get_arg_handler().parse_args(cliargs[1:]): error() raises CLIError,
\* the help option ends in exit(), which raises CLIHelp
parse_args(cli) ==
    CASE cli = "invalid" -> Raise("CLIError", None)
      [] cli = "help" -> Raise("CLIHelp", None)
      [] OTHER -> Return(None)

\* mutant: the configuration is built with strict=False, the grid sizes are
\* not checked
from_fileNotStrict(file, xsize, ysize) ==
    IF file = "unreadable" THEN Raise("ConfigurationError", None)
    ELSE Return(SCMTilesConfig(xsize, ysize))

\* SCMTilesConfig.from_file: an unreadable or incomplete file, or a grid
\* size <= 0, raises ConfigurationError
from_file(file, xsize, ysize) ==
    IF file = "unreadable" THEN Raise("ConfigurationError", None)
    ELSE IF xsize <= 0 \/ ysize <= 0 THEN Raise("ConfigurationError", None)
    ELSE Return(SCMTilesConfig(xsize, ysize))

\* if not os.path.exists(config.output_directory): os.makedirs(...)
\* os.makedirs raises PermissionError, or another OSError such as
\* NotADirectoryError when a component of the path is a regular file
make_output_directory(outdir, cfg) ==
    CASE outdir = "denied" -> Raise("PermissionError", cfg)
      [] outdir = "notdir" -> Raise("NotADirectoryError", cfg)
      [] OTHER -> Return(cfg)

\* the try block of initialize() on the master
ConfigurationPhase(cli, file, xsize, ysize, outdir) ==
    LET args == parse_args(cli)
        loaded == from_file(file, xsize, ysize)
    IN  IF args.raised # "none" THEN args
        ELSE IF loaded.raised # "none" THEN loaded
        ELSE make_output_directory(outdir, loaded.config)

\* the except clauses of initialize()
Handled == {"CLIError", "ConfigurationError", "CLIHelp", "PermissionError"}

\* mutant: the PermissionError clause exits with 1 like the others
HandlerCodeAlwaysOne(exc) == IF exc = "CLIHelp" THEN 0 ELSE 1

\* the exit code each except clause broadcasts and exits with
HandlerCode(exc) ==
    CASE exc = "CLIError" -> 1
      [] exc = "ConfigurationError" -> 1
      [] exc = "CLIHelp" -> 0
      [] exc = "PermissionError" -> 2

\* ------------------------------------------------------------- runner.py
CellResult(cell, outputs) == [cell |-> cell, outputs |-> outputs]

TileResult(id, results) == [id |-> id, cell_results |-> results]

\* TileRunner.__init__: self.config, self.tile
TileRunner(cfg, t) == [config |-> cfg, tile |-> t]

\* the outputs a successful run_cell reports for a cell
Outputs(cell) ==
    [type |-> "outputs", x_global |-> cell.x_global, y_global |-> cell.y_global]

\* --------------------------------------------------------------- task.py
MASTER == 0

Ranks == 0..(size - 1)

Workers == Ranks \ {MASTER}

\* self.run_info before run() has assigned it
Unset == [type |-> "unset"]

\* a Python int, as the value of an attribute or a return value that can
\* also be None
IntObj(n) == [type |-> "int", value |-> n]

\* a Python list, as the value of an attribute that can also be None
ListObj(items) == [type |-> "list", items |-> items]

\* no contribution handed to the gather yet
NotSent == [type |-> "notsent"]

\* comm.bcast(data, root=MASTER) on the root: data goes out to every other rank
Bcast(ch, data) ==
    [r \in DOMAIN ch |->
        IF r = MASTER THEN ch[r] ELSE Append(ch[r], [op |-> "bcast", data |-> data])]

\* mutant: every rank receives the next rank's element
ScatterItemShifted(ts, r) == ts[((r + 1) % Len(ts)) + 1]

\* comm.scatter(tiles, root=MASTER): rank r receives element r of the list
ScatterItem(ts, r) == ts[r + 1]

Scatter(ch, ts) ==
    [r \in DOMAIN ch |->
        IF r = MASTER THEN ch[r]
        ELSE Append(ch[r], [op |-> "scatter", data |-> ScatterItem(ts, r)])]

\* mutant: status += 1 once per tile that had failed cells
CountFailedTiles(crs) ==
    IF \E k \in 1..Len(crs) : crs[k].outputs = None THEN 1 ELSE 0

\* the status of finalize(): the CellResults whose outputs is None, counted
\* over the entries of run_info that are not None
RECURSIVE CountFailed(_)
CountFailed(crs) ==
    IF Len(crs) = 0 THEN 0
    ELSE (IF crs[1].outputs = None THEN 1 ELSE 0) + CountFailed(Tail(crs))

RECURSIVE FinalizeStatus(_)
FinalizeStatus(info) ==
    IF Len(info) = 0 THEN 0
    ELSE (IF info[1] = None THEN 0 ELSE CountFailed(info[1].cell_results))
         + FinalizeStatus(Tail(info))

\* state after TileTask.__init__ on every rank of the group
Init ==
    /\ size \in 1..MaxSize
    /\ decompose_mode \in {"rows", "cells"}
    /\ runner_class \in {"inherits_run", "overrides_run"}
    /\ gm = None
    /\ tiles = <<>>
    /\ sweep = [t |-> 1, k |-> 0]
    /\ yielded = <<>>
    /\ passes = <<>>
    /\ y_read = None
    /\ pc = [r \in Ranks |-> "initialize"]
    /\ outcome = "pending"
    /\ mconfig = None
    /\ config = [r \in Ranks |-> None]
    /\ tile = [r \in Ranks |-> None]
    /\ chan = [r \in Ranks |-> <<>>]
    /\ runner = [r \in Ranks |-> None]
    /\ cell_results = [r \in Ranks |-> <<>>]
    /\ raised = [r \in Ranks |-> "none"]
    /\ result = [r \in Ranks |-> None]
    /\ contrib = [r \in Ranks |-> NotSent]
    /\ run_info = [r \in Ranks |-> Unset]
    /\ log = [r \in Ranks |-> <<>>]
    /\ exitcode = [r \in Ranks |-> None]
    /\ status = [r \in Ranks |-> None]

Goto(r, label) == pc' = [pc EXCEPT ![r] = label]

\* initialize(), master: the try block runs on the command line, the
\* configuration file and the output directory it is given
MasterConfigure ==
    /\ pc[MASTER] = "initialize"
    /\ \E cli \in {"valid", "invalid", "help"}, file \in {"valid", "unreadable"},
          xsize \in 0..MaxXSize, ysize \in 0..MaxYSize,
          outdir \in {"exists", "creatable", "denied", "notdir"} :
            LET phase == ConfigurationPhase(cli, file, xsize, ysize, outdir)
            IN  /\ outcome' = phase.raised
                /\ mconfig' = phase.config
                /\ Goto(MASTER, IF phase.raised = "none" THEN "else" ELSE "except")
    /\ UNCHANGED <<gridvars, size, runner_class, config, tile, chan, runner,
                   cell_results, raised, result, contrib, run_info, log, exitcode,
                   status>>

\* mutant: the except clause broadcasts the status and then the
\* configuration it has, as the success path does
MasterBcastFailureThenConfig ==
    /\ pc[MASTER] = "except"
    /\ outcome \in Handled
    /\ Goto(MASTER, "sys_exit")
    /\ chan' = Bcast(Bcast(chan, <<TRUE, HandlerCode(outcome)>>), mconfig)
    /\ UNCHANGED <<gridvars, size, runner_class, outcome, mconfig, config, tile,
                   runner, cell_results, raised, result, contrib, run_info, log,
                   exitcode, status>>

\* an except clause matches: self.comm.bcast((True, code), root=MASTER)
MasterBcastFailure ==
    /\ pc[MASTER] = "except"
    /\ outcome \in Handled
    /\ Goto(MASTER, "sys_exit")
    /\ chan' = Bcast(chan, <<TRUE, HandlerCode(outcome)>>)
    /\ UNCHANGED <<gridvars, size, runner_class, outcome, mconfig, config, tile,
                   runner, cell_results, raised, result, contrib, run_info, log,
                   exitcode, status>>

\* ... then sys.exit(code)
MasterExit ==
    /\ pc[MASTER] = "sys_exit"
    /\ Goto(MASTER, "exited")
    /\ exitcode' = [exitcode EXCEPT ![MASTER] = IntObj(HandlerCode(outcome))]
    /\ UNCHANGED <<gridvars, size, runner_class, outcome, mconfig, config, tile,
                   chan, runner, cell_results, raised, result, contrib, run_info,
                   log, status>>

\* no except clause matches: the exception leaves initialize() and ends the
\* master process, no collective is issued
MasterUncaught ==
    /\ pc[MASTER] = "except"
    /\ outcome \notin Handled
    /\ Goto(MASTER, "raised_in_initialize")
    /\ UNCHANGED <<gridvars, size, runner_class, outcome, mconfig, config, tile,
                   chan, runner, cell_results, raised, result, contrib, run_info,
                   log, exitcode, status>>

\* else: self.comm.bcast((False, None), root=MASTER)
MasterBcastNoError ==
    /\ pc[MASTER] = "else"
    /\ Goto(MASTER, "decompose")
    /\ chan' = Bcast(chan, <<FALSE, None>>)
    /\ UNCHANGED <<gridvars, size, runner_class, outcome, mconfig, config, tile,
                   runner, cell_results, raised, result, contrib, run_info, log,
                   exitcode, status>>

\* mutant: the grid is not partitioned before the broadcast, a list of
\* placeholders goes to the scatter
MasterDecomposeSkipped ==
    /\ pc[MASTER] = "decompose"
    /\ Goto(MASTER, "bcast_config")
    /\ tiles' = [i \in 1..size |-> None]
    /\ UNCHANGED <<gm, decompose_mode, sweep, yielded, passes, y_read, size,
                   runner_class, outcome, mconfig, config, tile, chan, runner,
                   cell_results, raised, result, contrib, run_info, log, exitcode,
                   status>>

\* gm = GridManager(config.xsize, config.ysize, num_processes); tiles = gm.decompose_by_*()
MasterDecompose ==
    /\ pc[MASTER] = "decompose"
    /\ Goto(MASTER, "bcast_config")
    /\ gm' = GridManager(mconfig.xsize, mconfig.ysize, size)
    /\ tiles' = Decompose(gm', decompose_mode)
    /\ UNCHANGED <<decompose_mode, sweep, yielded, passes, y_read, size, runner_class, outcome,
                   mconfig, config, tile, chan, runner, cell_results, raised, result,
                   contrib, run_info, log, exitcode, status>>

\* self.config = self.comm.bcast(config, root=MASTER), on the master
MasterBcastConfig ==
    /\ pc[MASTER] = "bcast_config"
    /\ Goto(MASTER, "scatter")
    /\ chan' = Bcast(chan, mconfig)
    /\ config' = [config EXCEPT ![MASTER] = mconfig]
    /\ UNCHANGED <<gridvars, size, runner_class, outcome, mconfig, tile, runner,
                   cell_results, raised, result, contrib, run_info, log, exitcode,
                   status>>

\* self.tile = self.comm.scatter(tiles, root=MASTER), on the master
MasterScatter ==
    /\ pc[MASTER] = "scatter"
    /\ Goto(MASTER, "run")
    /\ chan' = Scatter(chan, tiles)
    /\ tile' = [tile EXCEPT ![MASTER] = ScatterItem(tiles, MASTER)]
    /\ UNCHANGED <<gridvars, size, runner_class, outcome, mconfig, config, runner,
                   cell_results, raised, result, contrib, run_info, log, exitcode,
                   status>>

\* initialize(), worker: error, stat = self.comm.bcast(None, root=MASTER);
\* if error: sys.exit(stat)
WorkerStatus(r) ==
    /\ r \in Workers
    /\ pc[r] = "initialize"
    /\ chan[r] # <<>>
    /\ LET error == Head(chan[r]).data[1]
           stat == Head(chan[r]).data[2]
       IN  IF error
           THEN /\ Goto(r, "exited")
                /\ exitcode' = [exitcode EXCEPT ![r] = IntObj(stat)]
           ELSE /\ Goto(r, "bcast_config")
                /\ UNCHANGED exitcode
    /\ chan' = [chan EXCEPT ![r] = Tail(@)]
    /\ UNCHANGED <<gridvars, size, runner_class, outcome, mconfig, config, tile,
                   runner, cell_results, raised, result, contrib, run_info, log,
                   status>>

\* self.config = self.comm.bcast(config, root=MASTER), on a worker
WorkerBcastConfig(r) ==
    /\ r \in Workers
    /\ pc[r] = "bcast_config"
    /\ chan[r] # <<>>
    /\ Goto(r, "scatter")
    /\ config' = [config EXCEPT ![r] = Head(chan[r]).data]
    /\ chan' = [chan EXCEPT ![r] = Tail(@)]
    /\ UNCHANGED <<gridvars, size, runner_class, outcome, mconfig, tile, runner,
                   cell_results, raised, result, contrib, run_info, log, exitcode,
                   status>>

\* self.tile = self.comm.scatter(tiles, root=MASTER), on a worker
WorkerScatter(r) ==
    /\ r \in Workers
    /\ pc[r] = "scatter"
    /\ chan[r] # <<>>
    /\ Goto(r, "run")
    /\ tile' = [tile EXCEPT ![r] = Head(chan[r]).data]
    /\ chan' = [chan EXCEPT ![r] = Tail(@)]
    /\ UNCHANGED <<gridvars, size, runner_class, outcome, mconfig, config, runner,
                   cell_results, raised, result, contrib, run_info, log, exitcode,
                   status>>

\* mutant: a participant without a tile hands in an empty TileResult
RunNoTileEmptyResult(r) ==
    /\ pc[r] = "run"
    /\ tile[r] = None
    /\ Goto(r, "gather")
    /\ result' = [result EXCEPT ![r] = TileResult(r, <<>>)]
    /\ UNCHANGED <<gridvars, size, runner_class, outcome, mconfig, config, tile,
                   chan, runner, cell_results, raised, contrib, run_info, log,
                   exitcode, status>>

\* run(): self.tile is None, nothing is constructed and run_info = None
RunNoTile(r) ==
    /\ pc[r] = "run"
    /\ tile[r] = None
    /\ Goto(r, "gather")
    /\ result' = [result EXCEPT ![r] = None]
    /\ UNCHANGED <<gridvars, size, runner_class, outcome, mconfig, config, tile,
                   chan, runner, cell_results, raised, contrib, run_info, log,
                   exitcode, status>>

\* run(): runner = self.runner_class(self.config, self.tile, ...) returns
RunnerConstructed(r) ==
    /\ pc[r] = "run"
    /\ tile[r] # None
    /\ Goto(r, "runner_run")
    /\ runner' = [runner EXCEPT ![r] = TileRunner(config[r], tile[r])]
    /\ UNCHANGED <<gridvars, size, runner_class, outcome, mconfig, config, tile,
                   chan, cell_results, raised, result, contrib, run_info, log,
                   exitcode, status>>

\* mutant: the except clause is missing, the error ends the participant
RunnerErrorUncaught(r, exc) ==
    /\ Goto(r, "raised_in_run")
    /\ raised' = [raised EXCEPT ![r] = exc]
    /\ UNCHANGED <<log, result>>

\* except TileInitializationError / except TileRunError in run(): the error
\* is logged and run_info = None
RunnerErrorCaught(r, exc) ==
    /\ Goto(r, "gather")
    /\ raised' = [raised EXCEPT ![r] = exc]
    /\ log' = [log EXCEPT ![r] = Append(@, [level |-> "error", error |-> exc,
                                            tile |-> tile[r].id])]
    /\ result' = [result EXCEPT ![r] = None]

\* run(): the runner's constructor raises TileInitializationError
RunnerInitError(r) ==
    /\ pc[r] = "run"
    /\ tile[r] # None
    /\ RunnerErrorCaught(r, "TileInitializationError")
    /\ UNCHANGED <<gridvars, size, runner_class, outcome, mconfig, config, tile,
                   chan, runner, cell_results, contrib, run_info, exitcode, status>>

\* run_info = runner.run() on a class that inherits TileRunner.run(self,
\* parent_logger): the argument is missing, the call raises TypeError, which
\* no except clause of run() catches
RunnerRunTypeError(r) ==
    /\ pc[r] = "runner_run"
    /\ runner_class = "inherits_run"
    /\ Goto(r, "raised_in_run")
    /\ raised' = [raised EXCEPT ![r] = "TypeError"]
    /\ UNCHANGED <<gridvars, size, runner_class, outcome, mconfig, config, tile,
                   chan, runner, cell_results, result, contrib, run_info, log,
                   exitcode, status>>

\* run_info = runner.run() on a class whose run() takes no argument and runs
\* the body of TileRunner.run: the log file opens, cell_results=[]
RunnerRunStart(r) ==
    /\ pc[r] = "runner_run"
    /\ runner_class = "overrides_run"
    /\ Goto(r, "cells")
    /\ cell_results' = [cell_results EXCEPT ![r] = <<>>]
    /\ UNCHANGED <<gridvars, size, runner_class, outcome, mconfig, config, tile,
                   chan, runner, raised, result, contrib, run_info, log, exitcode,
                   status>>

\* TileRunner.run: logging.FileHandler raises PermissionError, run() raises
\* TileRunError
RunnerRunLogDenied(r) ==
    /\ pc[r] = "runner_run"
    /\ runner_class = "overrides_run"
    /\ RunnerErrorCaught(r, "TileRunError")
    /\ UNCHANGED <<gridvars, size, runner_class, outcome, mconfig, config, tile,
                   chan, runner, cell_results, contrib, run_info, exitcode, status>>

\* the cell the loop `for cell in self.tile.cells()` is at
NextCell(r) == Cells(runner[r].tile)[Len(cell_results[r]) + 1]

\* TileRunner.run: cell_result = self.run_cell(cell, ...) returns, with
\* outputs or with outputs None; tile_result.cell_results.append(cell_result)
RunCell(r) ==
    /\ pc[r] = "cells"
    /\ Len(cell_results[r]) < Len(Cells(runner[r].tile))
    /\ \E outputs \in {Outputs(NextCell(r)), None} :
           cell_results' =
               [cell_results EXCEPT ![r] = Append(@, CellResult(NextCell(r), outputs))]
    /\ UNCHANGED <<gridvars, size, runner_class, pc, outcome, mconfig, config, tile,
                   chan, runner, raised, result, contrib, run_info, log, exitcode,
                   status>>

\* TileRunner.run: run_cell raises TileRunError (create_run_directory,
\* link_template), which leaves runner.run()
RunCellError(r) ==
    /\ pc[r] = "cells"
    /\ Len(cell_results[r]) < Len(Cells(runner[r].tile))
    /\ RunnerErrorCaught(r, "TileRunError")
    /\ UNCHANGED <<gridvars, size, runner_class, outcome, mconfig, config, tile,
                   chan, runner, cell_results, contrib, run_info, exitcode, status>>

\* TileRunner.run: the loop is over, return tile_result
RunnerReturn(r) ==
    /\ pc[r] = "cells"
    /\ Len(cell_results[r]) = Len(Cells(runner[r].tile))
    /\ Goto(r, "gather")
    /\ result' = [result EXCEPT ![r] = TileResult(runner[r].tile.id, cell_results[r])]
    /\ UNCHANGED <<gridvars, size, runner_class, outcome, mconfig, config, tile,
                   chan, runner, cell_results, raised, contrib, run_info, log,
                   exitcode, status>>

\* self.run_info = self.comm.gather(run_info, root=MASTER) on a worker: the
\* contribution goes to the root, gather returns None
WorkerGather(r) ==
    /\ r \in Workers
    /\ pc[r] = "gather"
    /\ Goto(r, "finalize")
    /\ contrib' = [contrib EXCEPT ![r] = result[r]]
    /\ run_info' = [run_info EXCEPT ![r] = None]
    /\ UNCHANGED <<gridvars, size, runner_class, outcome, mconfig, config, tile,
                   chan, runner, cell_results, raised, result, log, exitcode, status>>

\* mutant: the root lists the contributions from the highest rank down
GatherListReversed(own, sent) ==
    [i \in 1..Len(sent) |->
        IF Len(sent) - i = MASTER THEN own ELSE sent[Len(sent) - i + 1]]

\* the list comm.gather returns on the root: entry i is rank i's contribution
GatherList(own, sent) ==
    [i \in 1..Len(sent) |-> IF i - 1 = MASTER THEN own ELSE sent[i]]

\* mutant: the gather on the master gives up waiting and takes None for a
\* contribution that has not arrived
MasterGatherTimeout ==
    /\ pc[MASTER] = "gather"
    /\ Goto(MASTER, "finalize")
    /\ run_info' =
           [run_info EXCEPT ![MASTER] =
               ListObj(GatherList(result[MASTER],
                          [i \in 1..size |->
                              IF contrib[i - 1] = NotSent THEN None ELSE contrib[i - 1]]))]
    /\ UNCHANGED <<gridvars, size, runner_class, outcome, mconfig, config, tile,
                   chan, runner, cell_results, raised, result, contrib, log,
                   exitcode, status>>

\* self.run_info = self.comm.gather(run_info, root=MASTER) on the master:
\* returns once every rank has contributed
MasterGather ==
    /\ pc[MASTER] = "gather"
    /\ \A r \in Workers : contrib[r] # NotSent
    /\ Goto(MASTER, "finalize")
    /\ run_info' =
           [run_info EXCEPT ![MASTER] =
               ListObj(GatherList(result[MASTER], [i \in 1..size |-> contrib[i - 1]]))]
    /\ UNCHANGED <<gridvars, size, runner_class, outcome, mconfig, config, tile,
                   chan, runner, cell_results, raised, result, contrib, log,
                   exitcode, status>>

\* the runner of participant r failed with one of the typed errors
RunnerFailed(r) == raised[r] \in {"TileInitializationError", "TileRunError"}

\* mutant: a worker reports its own failed runner
WorkerFinalizeOwnFailure(r) ==
    /\ r \in Workers
    /\ pc[r] = "finalize"
    /\ Goto(r, "done")
    /\ status' = [status EXCEPT ![r] = IntObj(IF RunnerFailed(r) THEN 1 ELSE 0)]
    /\ UNCHANGED <<gridvars, size, runner_class, outcome, mconfig, config, tile,
                   chan, runner, cell_results, raised, result, contrib, run_info,
                   log, exitcode>>

\* finalize() on a worker: return 0
WorkerFinalize(r) ==
    /\ r \in Workers
    /\ pc[r] = "finalize"
    /\ Goto(r, "done")
    /\ status' = [status EXCEPT ![r] = IntObj(0)]
    /\ UNCHANGED <<gridvars, size, runner_class, outcome, mconfig, config, tile,
                   chan, runner, cell_results, raised, result, contrib, run_info,
                   log, exitcode>>

\* finalize() on the master: count the failed cells of self.run_info
MasterFinalize ==
    /\ pc[MASTER] = "finalize"
    /\ Goto(MASTER, "done")
    /\ status' = [status EXCEPT ![MASTER] = IntObj(FinalizeStatus(run_info[MASTER].items))]
    /\ UNCHANGED <<gridvars, size, runner_class, outcome, mconfig, config, tile,
                   chan, runner, cell_results, raised, result, contrib, run_info,
                   log, exitcode>>

Next ==
    \/ MasterConfigure
    \/ MasterBcastFailure
    \/ MasterExit
    \/ MasterUncaught
    \/ MasterBcastNoError
    \/ MasterDecompose
    \/ MasterBcastConfig
    \/ MasterScatter
    \/ MasterGather
    \/ MasterFinalize
    \/ \E r \in Ranks : WorkerStatus(r)
    \/ \E r \in Ranks : WorkerBcastConfig(r)
    \/ \E r \in Ranks : WorkerScatter(r)
    \/ \E r \in Ranks : RunNoTile(r)
    \/ \E r \in Ranks : RunnerConstructed(r)
    \/ \E r \in Ranks : RunnerInitError(r)
    \/ \E r \in Ranks : RunnerRunTypeError(r)
    \/ \E r \in Ranks : RunnerRunStart(r)
    \/ \E r \in Ranks : RunnerRunLogDenied(r)
    \/ \E r \in Ranks : RunCell(r)
    \/ \E r \in Ranks : RunCellError(r)
    \/ \E r \in Ranks : RunnerReturn(r)
    \/ \E r \in Ranks : WorkerGather(r)
    \/ \E r \in Ranks : WorkerFinalize(r)

Spec == Init /\ [][Next]_vars

\* ------------------------------------------------------ fair scheduling
\* a step of participant r: every rank is a process of its own, running
\* initialize(), run() and finalize() in sequence
ParticipantStep(r) ==
    /\ r \in Ranks
    /\ \/ /\ r = MASTER
          /\ \/ MasterConfigure \/ MasterBcastFailure \/ MasterExit \/ MasterUncaught
             \/ MasterBcastNoError \/ MasterDecompose \/ MasterBcastConfig
             \/ MasterScatter \/ MasterGather \/ MasterFinalize
       \/ WorkerStatus(r) \/ WorkerBcastConfig(r) \/ WorkerScatter(r)
       \/ RunNoTile(r) \/ RunnerConstructed(r) \/ RunnerInitError(r)
       \/ RunnerRunTypeError(r) \/ RunnerRunStart(r) \/ RunnerRunLogDenied(r)
       \/ RunCell(r) \/ RunCellError(r) \/ RunnerReturn(r)
       \/ WorkerGather(r) \/ WorkerFinalize(r)

\* every step of a participant moves its pc or appends to its cell_results
progress == <<pc, cell_results>>

\* every process that can take a step eventually takes one
FairSpec == Spec /\ \A r \in 0..(MaxSize - 1) : WF_progress(ParticipantStep(r))

\* ------------------------------------------- finalize() called out of turn
\* mutant: self.run_info starts as an empty list, finalize() finds nothing
finalizeEmptyDefault(info) ==
    IF info = Unset
    THEN [raised |-> "none", status |-> IntObj(0)]
    ELSE [raised |-> "none", status |-> IntObj(FinalizeStatus(info.items))]

\* finalize() on the master: __init__ does not assign self.run_info, so
\* `for tile_result in self.run_info` raises AttributeError until run() has
\* assigned it
finalize(info) ==
    IF info = Unset
    THEN [raised |-> "AttributeError", status |-> None]
    ELSE [raised |-> "none", status |-> IntObj(FinalizeStatus(info.items))]

\* the caller invokes finalize() on the master before run(), either straight
\* after __init__ or after initialize()
MasterFinalizeBeforeRun ==
    /\ pc[MASTER] \in {"initialize", "run"}
    /\ LET f == finalize(run_info[MASTER])
       IN  /\ raised' = [raised EXCEPT ![MASTER] = f.raised]
           /\ status' = [status EXCEPT ![MASTER] = f.status]
           /\ Goto(MASTER, IF f.raised = "none" THEN "done" ELSE "raised_in_finalize")
    /\ UNCHANGED <<gridvars, size, runner_class, outcome, mconfig, config, tile,
                   chan, runner, cell_results, result, contrib, run_info, log,
                   exitcode>>

NextOutOfTurn == Next \/ MasterFinalizeBeforeRun

SpecOutOfTurn == Init /\ [][NextOutOfTurn]_vars

\* ------------------------------------------------ finalize() called twice
\* mutant: the count is kept from the first call and the second call adds
\* to it
FinalizeAgainAccumulates(r) ==
    /\ pc[r] = "done"
    /\ Goto(r, "done_again")
    /\ status' = [status EXCEPT ![r] =
                      IF r = MASTER
                      THEN IntObj(@.value + finalize(run_info[r]).status.value)
                      ELSE IntObj(0)]
    /\ UNCHANGED <<gridvars, size, runner_class, outcome, mconfig, config, tile,
                   chan, runner, cell_results, raised, result, contrib, run_info,
                   log, exitcode>>

\* the caller invokes finalize() on participant r a second time, after the
\* first call has returned: a worker returns 0, the master starts again from
\* status = 0 and counts over self.run_info
FinalizeAgain(r) ==
    /\ pc[r] = "done"
    /\ Goto(r, "done_again")
    /\ status' = [status EXCEPT ![r] =
                      IF r = MASTER THEN finalize(run_info[r]).status ELSE IntObj(0)]
    /\ UNCHANGED <<gridvars, size, runner_class, outcome, mconfig, config, tile,
                   chan, runner, cell_results, raised, result, contrib, run_info,
                   log, exitcode>>

NextFinalizeTwice == Next \/ \E r \in Ranks : FinalizeAgain(r)

SpecFinalizeTwice == Init /\ [][NextFinalizeTwice]_vars

\* ------------------------------------------- run() without initialize()
\* mutant: run() refuses to start on a task that initialize() has not set up
RunWithoutInitializeRefused ==
    /\ outcome = "pending"
    /\ \A r \in Ranks : pc[r] = "initialize"
    /\ pc' = [r \in Ranks |-> "raised_in_run"]
    /\ raised' = [r \in Ranks |-> "RuntimeError"]
    /\ UNCHANGED <<gridvars, size, runner_class, outcome, mconfig, config, tile,
                   chan, runner, cell_results, result, contrib, run_info, log,
                   exitcode, status>>

\* the program every rank executes calls run() on the task straight after
\* __init__: every participant enters run() with the attributes __init__
\* gave it, nothing is checked on entry
RunWithoutInitialize ==
    /\ outcome = "pending"
    /\ \A r \in Ranks : pc[r] = "initialize"
    /\ pc' = [r \in Ranks |-> "run"]
    /\ UNCHANGED <<gridvars, size, runner_class, outcome, mconfig, config, tile,
                   chan, runner, cell_results, raised, result, contrib, run_info,
                   log, exitcode, status>>

NextRunFirst == Next \/ RunWithoutInitialize

SpecRunFirst == Init /\ [][NextRunFirst]_vars

\* no TileTask exists: the task's state is empty
NoTask ==
    /\ size = 0
    /\ runner_class = None
    /\ outcome = "pending"
    /\ mconfig = None
    /\ pc = <<>> /\ config = <<>> /\ tile = <<>> /\ chan = <<>> /\ runner = <<>>
    /\ cell_results = <<>> /\ raised = <<>> /\ result = <<>> /\ contrib = <<>>
    /\ run_info = <<>> /\ log = <<>> /\ exitcode = <<>> /\ status = <<>>

\* ---------------------------------------- GridManager used on its own
\* A GridManager is built for any grid and worker count, one decomposition
\* is requested, and cells() is then enumerated on the tiles in list order.
GridInit ==
    /\ gm \in {GridManager(nx, ny, w) :
                 nx \in 0..MaxWidth, ny \in 0..MaxHeight, w \in 1..MaxWorkers}
    /\ decompose_mode \in {"rows", "cells"}
    /\ tiles = <<>>
    /\ sweep = [t |-> 1, k |-> 0]
    /\ yielded = <<>>
    /\ passes = <<>>
    /\ y_read = None
    /\ NoTask

GridDecompose ==
    /\ tiles = <<>>
    /\ tiles' = Decompose(gm, decompose_mode)
    /\ UNCHANGED <<gm, decompose_mode, sweep, yielded, passes, y_read, taskvars>>

\* the generator of the tile at position sweep.t yields its next Cell
CellsYield ==
    /\ tiles # <<>>
    /\ sweep.t <= Len(tiles)
    /\ tiles[sweep.t] # None
    /\ sweep.k < Len(Cells(tiles[sweep.t]))
    /\ yielded' = Append(yielded, Cells(tiles[sweep.t])[sweep.k + 1])
    /\ sweep' = [sweep EXCEPT !.k = @ + 1]
    /\ UNCHANGED <<gm, decompose_mode, tiles, passes, y_read, taskvars>>

\* the generator is exhausted (or the entry is None): go on to the next entry
CellsExhausted ==
    /\ tiles # <<>>
    /\ sweep.t <= Len(tiles)
    /\ \/ tiles[sweep.t] = None
       \/ /\ tiles[sweep.t] # None
          /\ sweep.k = Len(Cells(tiles[sweep.t]))
    /\ sweep' = [t |-> sweep.t + 1, k |-> 0]
    /\ UNCHANGED <<gm, decompose_mode, tiles, yielded, passes, y_read, taskvars>>

\* the same decomposition is requested again from the same GridManager
GridDecomposeAgain ==
    /\ tiles # <<>>
    /\ tiles' = Decompose(gm, decompose_mode)
    /\ UNCHANGED <<gm, decompose_mode, sweep, yielded, passes, y_read, taskvars>>

GridNext == GridDecompose \/ CellsYield \/ CellsExhausted \/ GridDecomposeAgain

SpecGrid == GridInit /\ [][GridNext]_vars

\* ------------------------------------------------ a tile used on its own
\* the intervals [start, stop) within [0, n)
Selectors(n) ==
    {sel \in {slice(a, b) : a \in 0..n, b \in 0..n} : sel.start <= sel.stop}

\* A tile is constructed directly from selectors and the index lists they
\* select, a RectangularTile from the two axes of a MaxSide x MaxSide grid, a
\* LinearTile from the grid's flat index lists, and cells() is enumerated.
TileInit ==
    /\ gm = None
    /\ decompose_mode = None
    /\ tiles \in
           {<<RectangularTile(1, xs, ys, GetSlice(range(MaxSide), xs),
                              GetSlice(range(MaxSide), ys))>> :
                xs \in Selectors(MaxSide), ys \in Selectors(MaxSide)}
           \cup
           {<<LinearTile(1, sel, GetSlice(FlatXi(MaxSide, MaxSide), sel),
                         GetSlice(FlatYi(MaxSide, MaxSide), sel))>> :
                sel \in Selectors(MaxSide * MaxSide)}
    /\ sweep = [t |-> 1, k |-> 0]
    /\ yielded = <<>>
    /\ passes = <<>>
    /\ y_read = None
    /\ NoTask

\* mutant: the tile keeps one generator, a new call goes on where it stopped
CellsAgainResumes ==
    /\ tiles # <<>>
    /\ Len(passes) + 1 < MaxCalls
    /\ passes' = Append(passes, yielded)
    /\ yielded' = <<>>
    /\ UNCHANGED <<gm, decompose_mode, tiles, sweep, y_read, taskvars>>

\* cells() is called again on the tile: the generator in use, consumed in
\* part or to the end, is dropped and a new generator starts the loop afresh
CellsAgain ==
    /\ tiles # <<>>
    /\ Len(passes) + 1 < MaxCalls
    /\ passes' = Append(passes, yielded)
    /\ yielded' = <<>>
    /\ sweep' = [t |-> 1, k |-> 0]
    /\ UNCHANGED <<gm, decompose_mode, tiles, y_read, taskvars>>

\* y = cell.y on the cell cells() yielded last
CellReadY ==
    /\ yielded # <<>>
    /\ y_read' = CellY(yielded[Len(yielded)])
    /\ UNCHANGED <<gm, decompose_mode, tiles, sweep, yielded, passes, taskvars>>

TileNext == CellsYield \/ CellsExhausted \/ CellsAgain \/ CellReadY

SpecTile == TileInit /\ [][TileNext]_vars

\* ------------------------------------------------ properties: decomposition
\* the entries of the decomposition that are tiles, in list order
RealTiles == SelectSeq(tiles, LAMBDA t : t # None)

RowsDone == tiles # <<>> /\ decompose_mode = "rows"

CellsDone == tiles # <<>> /\ decompose_mode = "cells"

SweepDone == tiles # <<>> /\ sweep.t > Len(tiles)

\* C1: in row mode the tiles' y-intervals start at 0, each starts where the
\* previous one stops, the last stops at height, every x-interval is
\* [0, width), and so every grid index (x, y) lies in exactly one tile.
C1_RowCoverage ==
    RowsDone =>
        LET real == RealTiles
            n == Len(real)
        IN  /\ \A i \in 1..n : real[i].xselector = slice(0, gm.nx)
            /\ \A i \in 1..n :
                   real[i].yselector.start =
                       (IF i = 1 THEN 0 ELSE real[i - 1].yselector.stop)
            /\ (IF n = 0 THEN 0 ELSE real[n].yselector.stop) = gm.ny
            /\ \A x \in 0..(gm.nx - 1), y \in 0..(gm.ny - 1) :
                   Cardinality({i \in 1..n :
                       /\ real[i].xselector.start <= x /\ x < real[i].xselector.stop
                       /\ real[i].yselector.start <= y /\ y < real[i].yselector.stop}) = 1

\* a row decomposition with an uneven split (5 rows over 4 workers)
C1_Witness ==
    /\ RowsDone
    /\ gm.nx = 4 /\ gm.ny = 5 /\ gm.workers = 4
    /\ Len(RealTiles) = 4

\* C2: in cell mode the tiles' flat intervals start at 0, each starts where
\* the previous one stops, the last stops at width*height, and so every flat
\* index of [0, width*height) lies in exactly one tile.
C2_CellCoverage ==
    CellsDone =>
        LET real == RealTiles
            n == Len(real)
        IN  /\ \A i \in 1..n :
                   real[i].selector.start =
                       (IF i = 1 THEN 0 ELSE real[i - 1].selector.stop)
            /\ (IF n = 0 THEN 0 ELSE real[n].selector.stop) = gm.nx * gm.ny
            /\ \A f \in 0..(gm.nx * gm.ny - 1) :
                   Cardinality({i \in 1..n :
                       real[i].selector.start <= f /\ f < real[i].selector.stop}) = 1

\* a cell decomposition with an uneven split (4 x 5 cells over 6 workers)
C2_Witness ==
    /\ CellsDone
    /\ gm.nx = 4 /\ gm.ny = 5 /\ gm.workers = 6
    /\ Len(RealTiles) = 6

\* C3: the decomposition has exactly `workers` entries, the tiles form a
\* prefix and None fills the rest, and there are min(workers, height) tiles
\* in row mode and min(workers, width*height) in cell mode.
C3_SentinelPadding ==
    tiles # <<>> =>
        LET units == IF decompose_mode = "cells" THEN gm.nx * gm.ny ELSE gm.ny
            k == Min(gm.workers, units)
        IN  /\ Len(tiles) = gm.workers
            /\ \A i \in 1..Len(tiles) : (tiles[i] # None) <=> (i <= k)
            /\ Len(RealTiles) = k

\* a decomposition with more workers than rows: tiles, then sentinels
C3_Witness ==
    /\ RowsDone
    /\ gm.ny = 2 /\ gm.workers = 5
    /\ tiles[2] # None /\ tiles[3] = None /\ tiles[5] = None

\* C4: enumerating cells() of every tile of one decomposition yields each
\* global coordinate pair of the grid exactly once: never the same pair
\* twice, and all width*height pairs once every tile has been enumerated.
C4_CellsDisjointAndComplete ==
    /\ \A i, j \in 1..Len(yielded) :
           (yielded[i].x_global = yielded[j].x_global
            /\ yielded[i].y_global = yielded[j].y_global) => i = j
    /\ \A i \in 1..Len(yielded) :
           /\ yielded[i].x_global \in 0..(gm.nx - 1)
           /\ yielded[i].y_global \in 0..(gm.ny - 1)
    /\ SweepDone =>
           {<<yielded[i].x_global, yielded[i].y_global>> : i \in 1..Len(yielded)}
               = (0..(gm.nx - 1)) \X (0..(gm.ny - 1))

\* every tile of a 3 x 4 grid, cut in cell mode for 5 workers, enumerated
C4_Witness ==
    /\ SweepDone
    /\ decompose_mode = "cells"
    /\ gm.nx = 3 /\ gm.ny = 4 /\ gm.workers = 5
    /\ Len(yielded) = 12

\* --------------------------------------------------- properties: task.py
\* initialize() has returned on participant r
InitializeReturned(r) ==
    pc[r] \in {"run", "runner_run", "cells", "gather", "finalize", "done", "raised_in_run"}

\* the gather of run() has returned on participant r
GatherReturned(r) == pc[r] \in {"finalize", "done"}

\* the status message the master broadcasts for a handled failure
FailureStatus == [op |-> "bcast", data |-> <<TRUE, HandlerCode(outcome)>>]

\* C5: when the master's configuration phase fails with CLIError,
\* ConfigurationError, CLIHelp or PermissionError, every participant that
\* exits does so with the master's code (1, 1, 0, 2); the master has sent
\* (True, code) to every worker before it exits; nobody goes past the status
\* broadcast; and the group comes to rest only with every participant exited.
C5_FailureExitCodes ==
    /\ \A r \in Ranks :
           pc[r] = "exited" =>
               /\ outcome \in Handled
               /\ exitcode[r].value = (CASE outcome = "CLIError" -> 1
                                         [] outcome = "ConfigurationError" -> 1
                                         [] outcome = "CLIHelp" -> 0
                                         [] outcome = "PermissionError" -> 2)
    /\ pc[MASTER] \in {"sys_exit", "exited"} =>
           \A r \in Workers :
               \/ pc[r] = "exited"
               \/ pc[r] = "initialize" /\ chan[r] = <<FailureStatus>>
    /\ outcome \in Handled =>
           /\ \A r \in Ranks : pc[r] \in {"initialize", "except", "sys_exit", "exited"}
           /\ ~ENABLED Next => \A r \in Ranks : pc[r] = "exited"

\* the output directory cannot be created: master and worker exited with 2
C5_Witness ==
    /\ size = 2
    /\ outcome = "PermissionError"
    /\ \A r \in Ranks : pc[r] = "exited" /\ exitcode[r] = IntObj(2)

\* C6: on any failure of the master's configuration phase, every worker is
\* sent a (True, code) status before the master is gone, and no worker is
\* left waiting on the status broadcast when the group has come to rest.
C6_EveryFailureNotified ==
    outcome \notin {"pending", "none"} =>
        /\ pc[MASTER] \in {"exited", "raised_in_initialize"} =>
               \A r \in Workers :
                   \/ pc[r] = "exited"
                   \/ chan[r] # <<>> /\ Head(chan[r]).data[1] = TRUE
        /\ ~ENABLED Next => \A r \in Workers : pc[r] # "initialize"

\* C7: after a successful initialize(), every participant's config is the
\* master's parsed configuration and rank r holds element r of the
\* decomposition, with nothing else left for it to receive.
C7_ConfigAndTileDelivered ==
    \A r \in Ranks :
        InitializeReturned(r) =>
            /\ outcome = "none"
            /\ mconfig # None
            /\ config[r] = mconfig
            /\ Len(tiles) = size
            /\ tile[r] = tiles[r + 1]
            /\ chan[r] = <<>>

\* two participants initialized, each with its own tile
C7_Witness ==
    /\ size = 2
    /\ \A r \in Ranks : InitializeReturned(r) /\ tile[r] # None
    /\ tile[0] # tile[1]

\* C8: every participant that enters run() reaches the gather, whether its
\* runner succeeded, it held None, or its runner failed; after the gather
\* the master holds a list with one entry per rank, entry i being rank i's
\* contribution, and the workers hold none of it.
C8_EveryParticipantReachesGather ==
    /\ \A r \in Ranks : pc[r] # "raised_in_run"
    /\ GatherReturned(MASTER) =>
           /\ Len(run_info[MASTER].items) = size
           /\ \A i \in Ranks : run_info[MASTER].items[i + 1] = result[i]
    /\ \A r \in Workers : GatherReturned(r) => run_info[r] = None

\* C9: a TileInitializationError or TileRunError in run() makes the
\* participant's contribution None, is logged by that participant, leaves
\* the participant running on to the gather, and leaves every other
\* participant's contribution as that participant produced it.
C9_RunnerErrorsBecomeAbsence ==
    \A r \in Ranks :
        RunnerFailed(r) =>
            /\ pc[r] \in {"gather", "finalize", "done"}
            /\ result[r] = None
            /\ \E k \in 1..Len(log[r]) :
                   log[r][k].level = "error" /\ log[r][k].error = raised[r]
            /\ (r \in Workers /\ contrib[r] # NotSent) => contrib[r] = None
            /\ GatherReturned(MASTER) =>
                   /\ run_info[MASTER].items[r + 1] = None
                   /\ \A i \in Ranks \ {r} :
                          raised[i] = "none" =>
                              run_info[MASTER].items[i + 1] =
                                  (IF tile[i] = None THEN None
                                   ELSE TileResult(tile[i].id, cell_results[i]))

\* the master's runner failed while running, the worker's tile result is
\* in the gathered list all the same
C9_Witness ==
    /\ size = 2
    /\ raised[MASTER] = "TileRunError"
    /\ raised[1] = "none"
    /\ pc[MASTER] = "done"
    /\ run_info[MASTER].items[1] = None
    /\ run_info[MASTER].items[2] # None
    /\ Len(run_info[MASTER].items[2].cell_results) = 2

\* C10: a participant with a tile whose runner was constructed (and raised
\* no TileRunError) contributes a TileResult with the tile's id and one
\* CellResult per cell of tile.cells(), in that order.
C10_RunnerRunsEveryCell ==
    \A r \in Ranks :
        (/\ runner[r] # None
         /\ pc[r] \notin {"runner_run", "cells"}
         /\ raised[r] # "TileRunError") =>
            /\ result[r] # None
            /\ result[r].id = tile[r].id
            /\ Len(result[r].cell_results) = Len(Cells(tile[r]))
            /\ \A k \in 1..Len(Cells(tile[r])) :
                   result[r].cell_results[k].cell = Cells(tile[r])[k]

\* the sum of f[i] over the finite set S
RECURSIVE SetSum(_, _)
SetSum(f, S) ==
    IF S = {} THEN 0
    ELSE LET i == CHOOSE j \in S : TRUE IN f[i] + SetSum(f, S \ {i})

\* the positions of the gathered list that hold a TileResult
Present(info) == {i \in 1..Len(info) : info[i] # None}

\* how many CellResults of a TileResult have outputs None
AbsentOutputs(tr) ==
    Cardinality({k \in 1..Len(tr.cell_results) : tr.cell_results[k].outputs = None})

\* C11: on the master finalize() returns the number of CellResults with
\* outputs None, summed over the TileResults of the gathered list; None
\* entries add nothing, and the status is 0 when no cell failed.
C11_FinalizeCountsFailedCells ==
    pc[MASTER] = "done" =>
        LET info == run_info[MASTER].items
            failed == [i \in Present(info) |-> AbsentOutputs(info[i])]
        IN  /\ status[MASTER].value = SetSum(failed, Present(info))
            /\ (\A i \in Present(info) : failed[i] = 0) => status[MASTER] = IntObj(0)

\* two failed cells in the master's tile, the worker contributed None
C11_Witness ==
    /\ size = 2
    /\ pc[MASTER] = "done"
    /\ status[MASTER] = IntObj(2)
    /\ run_info[MASTER].items[1] # None
    /\ run_info[MASTER].items[2] = None

\* C12: whenever some participant's runner fails with a
\* TileInitializationError or a TileRunError, the failure is logged and the
\* status finalize() returns on the master is non-zero.
C12_RunnerFailureSurfaced ==
    (pc[MASTER] = "done" /\ \E r \in Ranks : RunnerFailed(r)) =>
        /\ \A r \in Ranks :
               RunnerFailed(r) =>
                   \E k \in 1..Len(log[r]) :
                       log[r][k].level = "error" /\ log[r][k].error = raised[r]
        /\ status[MASTER].value > 0

\* the configuration is valid and nothing the runner does fails: no
\* TileInitializationError, no TileRunError, no cell with outputs None
RunnerSucceeds ==
    /\ outcome = "none"
    /\ \A r \in Ranks :
           /\ ~RunnerFailed(r)
           /\ \A k \in 1..Len(cell_results[r]) : cell_results[r][k].outputs # None

\* the calls of run_cell made across the group, as <<rank, position>>
CellRuns ==
    UNION {{<<r, k>> : k \in 1..Len(cell_results[r])} : r \in Ranks}

\* C13: with a valid configuration and a runner that succeeds on every cell,
\* initialize(); run(); finalize() comes to rest only with every participant
\* through finalize(), status 0 on the master, and every cell of the
\* xsize * ysize grid run exactly once across the group.
C13_SuccessfulRunCompletes ==
    (~ENABLED Next /\ RunnerSucceeds) =>
        /\ \A r \in Ranks : pc[r] = "done"
        /\ status[MASTER] = IntObj(0)
        /\ \A x \in 0..(mconfig.xsize - 1), y \in 0..(mconfig.ysize - 1) :
               Cardinality({c \in CellRuns :
                               /\ cell_results[c[1]][c[2]].cell.x_global = x
                               /\ cell_results[c[1]][c[2]].cell.y_global = y}) = 1
        /\ Cardinality(CellRuns) = mconfig.xsize * mconfig.ysize

\* C14: on a worker finalize() returns 0 at once, whatever happened in the
\* worker's run() (a failed runner included), and the worker holds no
\* gathered list: comm.gather returned None on it.
C14_WorkerFinalizeReturnsZero ==
    \A r \in Workers :
        /\ pc[r] = "finalize" => ENABLED WorkerFinalize(r)
        /\ pc[r] \in {"finalize", "done"} => run_info[r] = None
        /\ pc[r] = "done" => status[r] = IntObj(0)

\* a worker whose runner failed is through finalize() with status 0
C14_Witness ==
    /\ size = 2
    /\ pc[1] = "done"
    /\ RunnerFailed(1)
    /\ status[1] = IntObj(0)

\* ------------------------------------- properties: shape of the tiles
\* the number of rows each tile of a row decomposition covers, in list order
RowCounts ==
    [i \in 1..Len(RealTiles) |->
        RealTiles[i].yselector.stop - RealTiles[i].yselector.start]

\* C15: in row mode the tile at position i covers height // workers + 1 rows
\* if i < height % workers and height // workers rows otherwise; the counts
\* never increase along the list and differ by at most 1; 5 rows over 4
\* workers are cut as 2, 1, 1, 1.
C15_RowBalance ==
    RowsDone =>
        LET base == gm.ny \div gm.workers
            remainder == gm.ny % gm.workers
        IN  /\ \A i \in 1..Len(tiles) :
                   tiles[i] # None =>
                       tiles[i].yselector.stop - tiles[i].yselector.start
                           = (IF i - 1 < remainder THEN base + 1 ELSE base)
            /\ \A i, j \in 1..Len(RowCounts) :
                   i <= j => /\ RowCounts[i] >= RowCounts[j]
                             /\ RowCounts[i] - RowCounts[j] <= 1
            /\ (gm.ny = 5 /\ gm.workers = 4) => RowCounts = <<2, 1, 1, 1>>

\* 5 rows cut for 4 workers: the first tile has the extra row
C15_Witness ==
    /\ RowsDone
    /\ gm.ny = 5 /\ gm.workers = 4
    /\ RowCounts = <<2, 1, 1, 1>>

\* C16: with more workers than rows, row mode produces exactly `height`
\* tiles of one row each, with ids 0..height-1 at positions 0..height-1, and
\* None at positions height..workers-1; cell mode does the same with
\* width*height one-cell tiles.
C16_DegenerateDecomposition ==
    /\ (RowsDone /\ gm.workers > gm.ny) =>
           /\ Len(RealTiles) = gm.ny
           /\ \A i \in 1..Len(tiles) :
                  IF i <= gm.ny
                  THEN /\ tiles[i] # None
                       /\ tiles[i].id = i - 1
                       /\ tiles[i].yselector = slice(i - 1, i)
                       /\ tiles[i].yi = <<i - 1>>
                  ELSE tiles[i] = None
    /\ (CellsDone /\ gm.workers > gm.nx * gm.ny) =>
           /\ Len(RealTiles) = gm.nx * gm.ny
           /\ \A i \in 1..Len(tiles) :
                  IF i <= gm.nx * gm.ny
                  THEN /\ tiles[i] # None
                       /\ tiles[i].id = i - 1
                       /\ tiles[i].selector = slice(i - 1, i)
                       /\ Len(Cells(tiles[i])) = 1
                  ELSE tiles[i] = None

\* 5 rows cut for 6 workers: five one-row tiles and one trailing None
C16_Witness ==
    /\ RowsDone
    /\ gm.ny = 5 /\ gm.workers = 6
    /\ Len(RealTiles) = 5
    /\ tiles[5] # None /\ tiles[6] = None

\* C17: the flat intervals of decompose_by_cells on (width, height, workers)
\* are the y-intervals of decompose_by_rows on a grid of height width*height
\* with the same workers, position by position, None entries included.
C17_CellsAreRowsOfFlatGrid ==
    CellsDone =>
        LET rows == decompose_by_rows(GridManager(gm.nx, gm.nx * gm.ny, gm.workers))
        IN  /\ Len(tiles) = Len(rows)
            /\ \A i \in 1..Len(tiles) :
                   IF tiles[i] = None
                   THEN rows[i] = None
                   ELSE /\ rows[i] # None
                        /\ tiles[i].id = rows[i].id
                        /\ tiles[i].selector = rows[i].yselector

\* a 3 x 4 grid cut in cell mode for 5 workers: 12 flat indices as 3,3,2,2,2
C17_Witness ==
    /\ CellsDone
    /\ gm.nx = 3 /\ gm.ny = 4 /\ gm.workers = 5
    /\ [i \in 1..Len(tiles) |-> tiles[i].selector.stop - tiles[i].selector.start]
           = <<3, 3, 2, 2, 2>>

\* C18: the k-th cell (k from 0) a linear tile of a cell decomposition
\* enumerates has local x = k, x_global = (start + k) % width and
\* y_global = (start + k) // width, start being the tile's flat start; the
\* tile enumerates stop - start cells.
C18_FlatIndexReconstruction ==
    CellsDone =>
        /\ \A i \in 1..Len(tiles) :
               tiles[i] # None =>
                   LET start == tiles[i].selector.start
                       cells == Cells(tiles[i])
                   IN  /\ Len(cells) = tiles[i].selector.stop - start
                       /\ \A k \in 0..(Len(cells) - 1) :
                              /\ cells[k + 1].x = k
                              /\ cells[k + 1].x_global = (start + k) % gm.nx
                              /\ cells[k + 1].y_global = (start + k) \div gm.nx
        /\ (sweep.t <= Len(tiles) /\ sweep.k > 0) =>
               LET flat == tiles[sweep.t].selector.start + sweep.k - 1
                   last == yielded[Len(yielded)]
               IN  /\ last.x = sweep.k - 1
                   /\ last.x_global = flat % gm.nx
                   /\ last.y_global = flat \div gm.nx

\* a 4 x 5 grid cut in cell mode for 8 workers: the tile of flat interval
\* [6, 9) has just yielded its second cell, flat index 7, which is (3, 1)
C18_Witness ==
    /\ CellsDone
    /\ gm.nx = 4 /\ gm.ny = 5 /\ gm.workers = 8
    /\ sweep.t = 3 /\ sweep.k = 2
    /\ tiles[3].selector = slice(6, 9)
    /\ yielded[Len(yielded)] = Cell(3, 1, 1, None)

\* ------------------------------------------ properties: cells() of a tile
\* C19: RectangularTile.cells() yields in row-major order, local y outside
\* and local x inside, both ascending from 0; the cell at local (x, y) has
\* x_global = x_indices[x] and y_global = y_indices[y]; index lists [1,2]
\* and [1,2] give local (0,0),(1,0),(0,1),(1,1) and global
\* (1,1),(2,1),(1,2),(2,2).
C19_RectangularRowMajor ==
    tiles[1].type = "rectangular" =>
        LET t == tiles[1]
            w == Len(t.xi)
        IN  /\ \A i \in 1..Len(yielded) :
                   LET x == (i - 1) % w
                       y == (i - 1) \div w
                   IN  yielded[i] = Cell(t.xi[x + 1], t.yi[y + 1], x, y)
            /\ SweepDone => Len(yielded) = Len(t.xi) * Len(t.yi)
            /\ (SweepDone /\ t.xi = <<1, 2>> /\ t.yi = <<1, 2>>) =>
                   yielded = <<Cell(1, 1, 0, 0), Cell(2, 1, 1, 0),
                               Cell(1, 2, 0, 1), Cell(2, 2, 1, 1)>>

\* the tile of xselector [1,3), yselector [1,3) has been enumerated to the end
C19_Witness ==
    /\ SweepDone
    /\ tiles[1].type = "rectangular"
    /\ tiles[1].xselector = slice(1, 3) /\ tiles[1].yselector = slice(1, 3)
    /\ tiles[1].xi = <<1, 2>> /\ tiles[1].yi = <<1, 2>>
    /\ Len(yielded) = 4
    /\ yielded[2] = Cell(2, 1, 1, 0)
    /\ yielded[3] = Cell(1, 2, 0, 1)

\* C20: LinearTile.cells() makes one ascending pass: the i-th cell yielded
\* (i from 0) has local x = i, x_global = x_indices[i] and
\* y_global = y_indices[i], and the pass ends after the tile's length.
C20_LinearSinglePass ==
    tiles[1].type = "linear" =>
        LET t == tiles[1]
        IN  /\ Len(yielded) <= Len(t.xi)
            /\ \A i \in 0..(Len(yielded) - 1) :
                   /\ yielded[i + 1].x = i
                   /\ yielded[i + 1].x_global = t.xi[i + 1]
                   /\ yielded[i + 1].y_global = t.yi[i + 1]
            /\ SweepDone =>
                   /\ Len(yielded) = Len(t.xi)
                   /\ Len(yielded) = t.selector.stop - t.selector.start

\* the tile of flat interval [2, 7) of the 3 x 3 grid has been enumerated
C20_Witness ==
    /\ SweepDone
    /\ tiles[1].type = "linear"
    /\ tiles[1].selector = slice(2, 7)
    /\ Len(yielded) = 5
    /\ yielded[1] = Cell(2, 0, 0, None)
    /\ yielded[5] = Cell(0, 2, 4, None)

\* ------------------------------- properties: cells() against the selectors
\* the number of grid cells the selector(s) of tile t cover
Covered(t) ==
    IF t.type = "linear"
    THEN t.selector.stop - t.selector.start
    ELSE (t.xselector.stop - t.xselector.start) * (t.yselector.stop - t.yselector.start)

\* the global coordinate pairs the selector(s) of tile t cover on a grid of
\* width w
CoveredPairs(t, w) ==
    IF t.type = "linear"
    THEN {<<f % w, f \div w>> : f \in t.selector.start..(t.selector.stop - 1)}
    ELSE (t.xselector.start..(t.xselector.stop - 1))
             \X (t.yselector.start..(t.yselector.stop - 1))

\* the global coordinate pairs of a sequence of cells
Pairs(cells) == {<<cells[k].x_global, cells[k].y_global>> : k \in 1..Len(cells)}

\* C21: for every tile of either decomposition, cells() yields exactly as
\* many cells as the tile's selector covers (width * (y_stop - y_start) for
\* a row tile, stop - start for a linear tile), one for each covered grid
\* index and none twice; the enumeration of the tiles in list order has
\* yielded the covered counts of the tiles passed plus the position in the
\* current one.
C21_CellCountMatchesSelector ==
    tiles # <<>> =>
        /\ \A i \in 1..Len(tiles) :
               tiles[i] # None =>
                   LET cells == Cells(tiles[i])
                   IN  /\ Len(cells) = Covered(tiles[i])
                       /\ decompose_mode = "rows" =>
                              Len(cells) = gm.nx * (tiles[i].yselector.stop
                                                    - tiles[i].yselector.start)
                       /\ Pairs(cells) = CoveredPairs(tiles[i], gm.nx)
                       /\ Cardinality(Pairs(cells)) = Len(cells)
        /\ LET passed == {i \in 1..Len(tiles) : i < sweep.t /\ tiles[i] # None}
           IN  Len(yielded) = SetSum([i \in passed |-> Covered(tiles[i])], passed)
                                  + sweep.k

\* a 4 x 5 grid cut in rows for 4 workers, enumerated to the end: 8 cells
\* from the first tile, 4 from each of the others
C21_Witness ==
    /\ RowsDone /\ SweepDone
    /\ gm.nx = 4 /\ gm.ny = 5 /\ gm.workers = 4
    /\ Covered(tiles[1]) = 8 /\ Covered(tiles[4]) = 4
    /\ Len(yielded) = 20

\* every call of cells() on the tile so far, the current one last
Calls == Append(passes, yielded)

\* any two calls of cells() agree on what they yielded as far as both went,
\* none went past the tile's cells, and a call consumed to the end went at
\* least as far as every other
CallsAgree ==
    /\ \A p, q \in 1..Len(Calls) :
           \A i \in 1..Min(Len(Calls[p]), Len(Calls[q])) : Calls[p][i] = Calls[q][i]
    /\ \A p \in 1..Len(Calls) : Len(Calls[p]) <= Covered(tiles[1])
    /\ SweepDone => \A p \in 1..Len(Calls) : Len(Calls[p]) <= Len(yielded)

\* C22: cells() can be called again on the same tile, after a call consumed
\* in part or to the end, and yields the same finite sequence each time; no
\* step changes the tile's id, selector(s) or index lists.
C22_CellsRestartable == [][tiles' = tiles]_vars /\ []CallsAgree

\* a first call dropped after two cells, a second call consumed to the end
C22_Witness ==
    /\ Len(passes) = 1
    /\ Len(passes[1]) = 2
    /\ SweepDone
    /\ Len(yielded) = 4
    /\ tiles[1].type = "rectangular"

\* C23: reading y on a Cell constructed without a y (a linear-tile cell)
\* raises AttributeError and returns nothing; reading y on a Cell
\* constructed with a y returns that y.
C23_CellYAttributeError ==
    y_read # None =>
        IF IsNone(y_read.cell.y)
        THEN y_read.raised = "AttributeError" /\ IsNone(y_read.value)
        ELSE y_read.raised = "none" /\ y_read.value = y_read.cell.y

\* participant r has returned from the configuration broadcast of initialize()
PastConfigBcast(r) ==
    pc[r] \in {"scatter", "run", "runner_run", "cells", "gather", "finalize", "done",
               "raised_in_run"}

\* C24: no participant is past the configuration broadcast or the scatter of
\* initialize(), and no participant's config or tile is set, while the master
\* has not yet partitioned the grid.
C24_PartitionBeforeDelivery ==
    \A r \in Ranks :
        (PastConfigBcast(r) \/ config[r] # None \/ tile[r] # None) =>
            /\ pc[MASTER] \notin {"initialize", "except", "else", "decompose"}
            /\ gm # None
            /\ tiles = Decompose(gm, decompose_mode)
            /\ Len(tiles) = size

\* a worker has its config and its tile; the master partitioned the grid
C24_Witness ==
    /\ size = 2
    /\ pc[1] = "run"
    /\ config[1] # None
    /\ tile[1] # None
    /\ gm # None

\* C25: a participant whose scattered entry is None constructs no runner
\* and runs no cell in run(), raises and logs nothing, contributes None to
\* the gather, and its entry of the gathered list is None, which finalize()
\* does not count.
C25_NoTileNoWork ==
    \A r \in Ranks :
        (InitializeReturned(r) /\ tile[r] = None) =>
            /\ pc[r] \in {"run", "gather", "finalize", "done"}
            /\ runner[r] = None
            /\ cell_results[r] = <<>>
            /\ raised[r] = "none"
            /\ log[r] = <<>>
            /\ result[r] = None
            /\ (r \in Workers /\ contrib[r] # NotSent) => contrib[r] = None
            /\ GatherReturned(MASTER) =>
                   /\ run_info[MASTER].items[r + 1] = None
                   /\ (r + 1) \notin Present(run_info[MASTER].items)

\* one row for two participants: the worker had no tile, the master counted
\* one failed cell of its own tile
C25_Witness ==
    /\ size = 2
    /\ pc[MASTER] = "done" /\ pc[1] = "done"
    /\ tile[MASTER] # None /\ tile[1] = None
    /\ run_info[MASTER].items[2] = None
    /\ status[MASTER] = IntObj(1)

\* within one decomposition the k tiles carry the ids 0..k-1, each once, in
\* list order
IdsZeroBased ==
    /\ {RealTiles[i].id : i \in 1..Len(RealTiles)} = 0..(Len(RealTiles) - 1)
    /\ \A i, j \in 1..Len(RealTiles) : RealTiles[i].id = RealTiles[j].id => i = j
    /\ \A i \in 1..Len(RealTiles) : RealTiles[i].id = i - 1

\* C26: the tile ids of a decomposition are unique and 0-based, the k real
\* tiles carrying exactly 0..k-1, and decomposing the same (width, height,
\* workers) again yields the same ids and the same selectors.
C26_TileIdsStable == []IdsZeroBased /\ [][tiles # <<>> => tiles' = tiles]_vars

\* 20 cells cut for 8 workers: tiles with ids 0..7
C26_Witness ==
    /\ CellsDone
    /\ gm.nx = 4 /\ gm.ny = 5 /\ gm.workers = 8
    /\ [i \in 1..Len(tiles) |-> tiles[i].id] = <<0, 1, 2, 3, 4, 5, 6, 7>>

\* C27: the master completes run() only once every participant has reached
\* the gather: while some worker has not contributed (its runner has not
\* returned, or it left run() on an error), the master is not past the
\* gather, has no gathered list and no status, and when the group is at rest
\* with such a worker the master is still in run().
C27_GatherWaitsForAll ==
    /\ GatherReturned(MASTER) => \A r \in Workers : contrib[r] # NotSent
    /\ (\E r \in Workers : InitializeReturned(r) /\ contrib[r] = NotSent) =>
           /\ pc[MASTER] \notin {"finalize", "done"}
           /\ run_info[MASTER] = Unset
           /\ status[MASTER] = None
    /\ (~ENABLED Next /\ \E r \in Workers : pc[r] = "raised_in_run") =>
           pc[MASTER] \in {"gather", "raised_in_run"}

\* the worker left run() before the gather; the master waits in the gather
\* and nothing more can happen
C27_Witness ==
    /\ size = 2
    /\ pc[1] = "raised_in_run"
    /\ pc[MASTER] = "gather"
    /\ result[MASTER] = None
    /\ ~ENABLED Next

\* C28: finalize() on the master before run() has gathered any results
\* returns no status and ends in an error: self.run_info is unset until the
\* gather of run() returns, a status exists only once it is set, and the
\* early call leaves the master with AttributeError and no way on.
C28_FinalizeBeforeRunFails ==
    /\ pc[MASTER] \notin {"finalize", "done"} => run_info[MASTER] = Unset
    /\ ~IsNone(status[MASTER]) =>
           /\ pc[MASTER] = "done"
           /\ run_info[MASTER] # Unset
    /\ pc[MASTER] = "raised_in_finalize" =>
           /\ raised[MASTER] = "AttributeError"
           /\ IsNone(status[MASTER])
           /\ ~ENABLED MasterGather /\ ~ENABLED MasterFinalize
           /\ ~ENABLED MasterFinalizeBeforeRun

\* finalize() was called after initialize() and before run()
C28_Witness ==
    /\ pc[MASTER] = "raised_in_finalize"
    /\ config[MASTER] # None
    /\ tile[MASTER] # None
    /\ raised[MASTER] = "AttributeError"
    /\ run_info[MASTER] = Unset

\* C29: no tile of a decomposition is empty: every entry that is not None
\* covers at least one row (row mode) or at least one flat index (cell
\* mode), and when height, or width*height, is 0 every entry is None.
C29_NoEmptyTile ==
    tiles # <<>> =>
        /\ \A i \in 1..Len(tiles) :
               tiles[i] # None =>
                   IF tiles[i].type = "linear"
                   THEN /\ tiles[i].selector.stop - tiles[i].selector.start >= 1
                        /\ Len(Cells(tiles[i])) >= 1
                   ELSE /\ tiles[i].yselector.stop - tiles[i].yselector.start >= 1
                        /\ Len(tiles[i].yi) >= 1
        /\ (decompose_mode = "rows" /\ gm.ny = 0) =>
               \A i \in 1..Len(tiles) : tiles[i] = None
        /\ (decompose_mode = "cells" /\ gm.nx * gm.ny = 0) =>
               \A i \in 1..Len(tiles) : tiles[i] = None

\* a grid of width 3 and height 0 cut in cell mode for 2 workers: two Nones
C29_Witness ==
    /\ CellsDone
    /\ gm.nx = 3 /\ gm.ny = 0 /\ gm.workers = 2
    /\ tiles = <<None, None>>

\* the collectives participant r has returned from, in call order, read off
\* its position in initialize() and run()
Issued(r) ==
    CASE pc[r] \in {"initialize", "except", "else", "raised_in_initialize"} -> <<>>
      [] pc[r] \in {"sys_exit", "exited", "decompose", "bcast_config"} -> <<"bcast">>
      [] pc[r] = "scatter" -> <<"bcast", "bcast">>
      [] pc[r] \in {"run", "runner_run", "cells", "gather", "raised_in_run"} ->
             <<"bcast", "bcast", "scatter">>
      [] pc[r] \in {"finalize", "done"} -> <<"bcast", "bcast", "scatter", "gather">>

\* C30: every participant issues the same collectives in the same order,
\* status broadcast, configuration broadcast, scatter and gather on the
\* success path and the status broadcast alone on the failure path; the
\* master has issued its status broadcast whenever it is out of the
\* configuration phase; so the group never comes to rest with participants
\* that issued different sequences.
C30_SameCollectiveOrder ==
    /\ pc[MASTER] \notin {"initialize", "except", "else"} => Len(Issued(MASTER)) >= 1
    /\ ~ENABLED Next =>
           /\ \A r, q \in Ranks : Issued(r) = Issued(q)
           /\ Issued(MASTER) \in {<<"bcast">>, <<"bcast", "bcast", "scatter", "gather">>}

\* C31: when the master's configuration phase succeeds, and runner
\* constructions and cell runs only return or raise TileInitializationError
\* or TileRunError, every participant eventually returns from initialize(),
\* run() and finalize() under fair scheduling.
C31_EveryParticipantReturns ==
    (outcome = "none") ~> (\A r \in Ranks : pc[r] = "done")

\* initialize() has failed in the master's configuration phase
InitializeFailed == outcome \notin {"pending", "none"}

\* C32: when initialize() fails, every participant keeps config = None and
\* tile = None, no GridManager is built and no tile list exists, nothing but
\* the one (True, code) status message is ever sent to a worker, no runner
\* exists, no contribution is handed to a gather and run_info stays
\* unassigned; on a handled failure every participant ends having performed
\* the status broadcast and nothing else.
C32_FailurePathFrame ==
    InitializeFailed =>
        /\ gm = None /\ tiles = <<>>
        /\ \A r \in Ranks :
               /\ config[r] = None /\ tile[r] = None /\ runner[r] = None
               /\ contrib[r] = NotSent /\ run_info[r] = Unset
               /\ \/ chan[r] = <<>>
                  \/ outcome \in Handled /\ chan[r] = <<FailureStatus>>
               /\ pc[r] \in {"initialize", "except", "raised_in_initialize",
                             "sys_exit", "exited"}
               /\ Issued(r) \in {<<>>, <<"bcast">>}
        /\ (outcome \in Handled /\ ~ENABLED Next) =>
               \A r \in Ranks : pc[r] = "exited" /\ Issued(r) = <<"bcast">>
                                 /\ chan[r] = <<>>

\* two participants have left initialize() by sys.exit after a handled
\* failure
C32_Witness ==
    /\ size = 2
    /\ outcome = "ConfigurationError"
    /\ \A r \in Ranks : pc[r] = "exited" /\ config[r] = None /\ tile[r] = None
    /\ gm = None

\* C33: when initialize() is about to build the GridManager the sizes of the
\* loaded configuration are both >= 1 and the group has at least one
\* process; the GridManager gets exactly these sizes and the group size as
\* its number of workers and yields one list entry per process; so once
\* initialize() has returned on the master, the master holds a real tile
\* with at least one cell.
C33_PartitionerInputsPositive ==
    /\ pc[MASTER] = "decompose" =>
           /\ mconfig.xsize >= 1 /\ mconfig.ysize >= 1
           /\ size >= 1
    /\ gm # None =>
           /\ gm.nx = mconfig.xsize /\ gm.nx >= 1
           /\ gm.ny = mconfig.ysize /\ gm.ny >= 1
           /\ gm.workers = size /\ gm.workers >= 1
           /\ Len(tiles) = size
           /\ tiles[1] # None
           /\ \E i \in 1..Len(tiles) : tiles[i] # None /\ Len(Cells(tiles[i])) >= 1
    /\ InitializeReturned(MASTER) =>
           /\ gm # None
           /\ tile[MASTER] # None
           /\ Len(Cells(tile[MASTER])) >= 1

\* initialize() has returned on the master of a group of two for a grid of
\* a single cell: the master holds it, the other participant has no tile
C33_Witness ==
    /\ size = 2
    /\ pc[MASTER] = "run" /\ pc[1] = "run"
    /\ gm # None /\ gm.nx = 1 /\ gm.ny = 1
    /\ tile[MASTER] # None /\ Len(Cells(tile[MASTER])) = 1
    /\ tile[1] = None

\* C34: the tile at position i of the decomposition (counted from 0) has id
\* i; a participant that holds a real tile after the scatter holds the tile
\* whose id is its rank, the TileResult its runner returns carries that id,
\* and every TileResult present in the master's gathered list sits at the
\* index that equals its id.
C34_TileIdIsRank ==
    /\ \A i \in 1..Len(tiles) : tiles[i] # None => tiles[i].id = i - 1
    /\ \A r \in Ranks :
           /\ (InitializeReturned(r) /\ tile[r] # None) => tile[r].id = r
           /\ result[r] # None => result[r].id = r
    /\ GatherReturned(MASTER) =>
           \A i \in Present(run_info[MASTER].items) :
               run_info[MASTER].items[i].id = i - 1

\* the master of a group of two has gathered a TileResult from each rank
C34_Witness ==
    /\ size = 2
    /\ GatherReturned(MASTER)
    /\ Present(run_info[MASTER].items) = {1, 2}
    /\ run_info[MASTER].items[2].id = 1
    /\ tile[1] # None /\ tile[1].id = 1

\* C35: a call of finalize() leaves self.run_info, self.config and self.tile
\* of every participant as they were, the first call and the second alike,
\* and the second call returns the status the first call returned.
C35_FinalizeReadsOnly ==
    [][\A r \in Ranks :
          /\ (pc[r] = "finalize" /\ pc'[r] = "done") =>
                 /\ run_info' = run_info /\ config' = config /\ tile' = tile
          /\ (pc[r] = "done" /\ pc'[r] = "done_again") =>
                 /\ run_info' = run_info /\ config' = config /\ tile' = tile
                 /\ status'[r] = status[r]]_vars

\* the master has returned from a second finalize() over a gathered list
\* with a failed cell, a worker from its second call
C35_Witness ==
    /\ size = 2
    /\ pc[MASTER] = "done_again" /\ pc[1] = "done_again"
    /\ status[MASTER].value >= 1
    /\ status[1] = IntObj(0)
    /\ Present(run_info[MASTER].items) # {}

\* run() was entered on a task that never went through initialize()
RunFirst == outcome = "pending" /\ \A r \in Ranks : pc[r] # "initialize"

\* C36: when every participant calls run() on a freshly created task, each
\* one finds self.tile = None, constructs no runner, raises nothing and
\* contributes None; the gather on the master returns a list of None, one
\* per participant; finalize() on the master then returns 0; and the group
\* comes to rest only with every participant through finalize().
C36_RunWithoutInitialize ==
    RunFirst =>
        /\ \A r \in Ranks :
               /\ pc[r] \in {"run", "gather", "finalize", "done"}
               /\ tile[r] = None /\ config[r] = None
               /\ runner[r] = None /\ cell_results[r] = <<>>
               /\ raised[r] = "none" /\ log[r] = <<>>
               /\ result[r] = None
               /\ contrib[r] \in {NotSent, None}
               /\ pc[r] = "done" => status[r] = IntObj(0)
        /\ gm = None /\ tiles = <<>>
        /\ GatherReturned(MASTER) =>
               /\ run_info[MASTER] = ListObj([i \in 1..size |-> None])
               /\ Present(run_info[MASTER].items) = {}
        /\ ~ENABLED NextRunFirst => \A r \in Ranks : pc[r] = "done"

\* two participants went from __init__ to run() and on through finalize()
C36_Witness ==
    /\ size = 2
    /\ RunFirst
    /\ \A r \in Ranks : pc[r] = "done"
    /\ run_info[MASTER].items = <<None, None>>
    /\ status[MASTER] = IntObj(0)

====
